---- MODULE Spec2Model ----
(***************************************************************************)
(* Model of app.py: the scheduled content-delivery bot.                    *)
(*                                                                         *)
(* Python values whose type the code does not fix are tagged records       *)
(* [t |-> <type>, v |-> <value>], so that int(), len(), .get() and ** can  *)
(* fail in the model where they raise in Python.                           *)
(*   candidate list of a slot : [t |-> "list", v |-> <<messages>>]         *)
(*                              [t |-> "num",  v |-> <<>>]   (e.g. 5)      *)
(*   messages/images/slot_image of a fetched document:                     *)
(*                              [t |-> "obj", v |-> <mapping>]             *)
(*                              [t |-> "scalar", v |-> <<>>] (truthy, not  *)
(*                                                           a mapping)    *)
(*   refresh_seconds, rr_index: [t |-> "int", v |-> n]                     *)
(*                              [t |-> "str", v |-> 0]  (non-numeric)      *)
(*                              [t |-> "absent", v |-> 0] (key missing)    *)
(***************************************************************************)
EXTENDS Integers, Sequences, FiniteSets, TLC

VARIABLES
    env,        \* the environment variables read at import (lines 24-36)
    now,        \* time.time(), in seconds
    today,      \* the local date: today_key and day-of-year
    remote,     \* the body served at CONFIG_URL while the daily order runs
    _cache,     \* line 65
    _state,     \* line 69
    file,       \* the content of STATE_FILE
    op,         \* what the last top-level operation did (observation only)
    fetchLog,   \* the last fetch_config calls (observation only)
    selected,   \* <<slot, message>> pairs pick_message has returned so far
    pos,        \* position of the next cron trigger within the day
    thr,        \* per thread: program counter and locals inside pick_message
    sel,        \* rr_index at thread start, and the one each completed selection used
    text,       \* the text handed to handle_command
    parsed,     \* what handle_command returned for it
    resps,      \* the answers of the API to the attempts of one _post call
    posted,     \* what that _post call returned
    offset,     \* line 314: the poll cursor
    inbox,      \* the updates the API has received; update_id is the position
    batch,      \* the rest of data["result"] the for loop of line 328 is in
    handled,    \* update_ids whose handling was started, in order
    writeFailed \* a write of STATE_FILE has failed since the file was read

\* the state of one _post call and of the poll loop
others == <<resps, posted, offset, inbox, batch, handled, writeFailed>>

vars == <<env, now, today, remote, _cache, _state, file, op, fetchLog,
          selected, pos, thr, sel, text, parsed, others>>

----------------------------------------------------------------------------
(* Bounds of the model *)

MaxTime == 360      \* the clock stops advancing here
MaxDay == 2         \* last modelled date
MaxRR == 4          \* no selection starts at this rr_index or above
MaxFileRR == 1      \* largest rr_index found in the state file at start
MaxCand == 3        \* longest candidate list of a remote document (daily order)
MaxParts == 3       \* longest token list handed to handle_command
MaxLog == 3         \* fetch_config calls remembered
MaxUpd == 3         \* updates the API receives while the poll loop is followed

(* Program constants *)
DefaultRefresh == 120     \* DEFAULT_CONFIG["refresh_seconds"]
MaxAttempts == 4          \* range(1, 5) in _post

StartTime == 2 * DefaultRefresh   \* the process starts long after the epoch
TimeSteps == {DefaultRefresh \div 2, DefaultRefresh}

----------------------------------------------------------------------------
(* Tagged values *)

List(s) == [t |-> "list", v |-> s]
Num == [t |-> "num", v |-> <<>>]
Obj(m) == [t |-> "obj", v |-> m]
Scalar == [t |-> "scalar", v |-> <<>>]
IntV(n) == [t |-> "int", v |-> n]
StrV == [t |-> "str", v |-> 0]
AbsentV == [t |-> "absent", v |-> 0]

\* {**a, **b}
DictMerge(a, b) ==
    [k \in (DOMAIN a) \cup (DOMAIN b) |-> IF k \in DOMAIN b THEN b[k] ELSE a[k]]

EmptyDict == [k \in {} |-> 0]

\* d.get(k, dflt)
Get(d, k, dflt) == IF k \in DOMAIN d THEN d[k] ELSE dflt

----------------------------------------------------------------------------
(* Configuration: lines 46-65, 89-118 *)

Slots == {"11:00", "15:00", "22:00"}

DefaultMessages(s) ==
    CASE s = "11:00" -> <<"11A", "11B", "11C">>
      [] s = "15:00" -> <<"15A", "15B", "15C">>
      [] s = "22:00" -> <<"22A", "22B", "22C">>

DEFAULT_CONFIG ==
    [messages |-> [s \in Slots |-> List(DefaultMessages(s))],
     images |-> [k \in {"left", "right"} |-> ""],
     slot_image |-> [s \in Slots |-> IF s = "15:00" THEN "right" ELSE "left"],
     rotation |-> "round_robin",
     refresh_seconds |-> IntV(DefaultRefresh)]

\* The outcomes of requests.get(CONFIG_URL) + raise_for_status() + r.json()
GetError == [kind |-> "error", body |-> Scalar]
GetJson(body) == [kind |-> "json", body |-> body]

\* lines 107-111 raise (and line 116 catches) unless the body is a JSON object
\* whose messages, images and slot_image are mappings
Mergeable(body) ==
    /\ body.t = "obj"
    /\ \A f \in {"messages", "images", "slot_image"} \cap DOMAIN body.v :
           body.v[f].t = "obj"

\* a merge that replaces images wholesale
MergeWholesale(doc) ==
    [messages |-> DictMerge(DEFAULT_CONFIG.messages,
                            Get(doc, "messages", Obj(EmptyDict)).v),
     images |-> Get(doc, "images", Obj(DEFAULT_CONFIG.images)).v,
     slot_image |-> DictMerge(DEFAULT_CONFIG.slot_image,
                              Get(doc, "slot_image", Obj(EmptyDict)).v),
     rotation |-> Get(doc, "rotation", DEFAULT_CONFIG.rotation),
     refresh_seconds |-> Get(doc, "refresh_seconds", DEFAULT_CONFIG.refresh_seconds)]

\* lines 107-111
MergeConfig(doc) ==
    [messages |-> DictMerge(DEFAULT_CONFIG.messages,
                            Get(doc, "messages", Obj(EmptyDict)).v),
     images |-> DictMerge(DEFAULT_CONFIG.images, Get(doc, "images", Obj(EmptyDict)).v),
     slot_image |-> DictMerge(DEFAULT_CONFIG.slot_image,
                              Get(doc, "slot_image", Obj(EmptyDict)).v),
     rotation |-> Get(doc, "rotation", DEFAULT_CONFIG.rotation),
     refresh_seconds |-> Get(doc, "refresh_seconds", DEFAULT_CONFIG.refresh_seconds)]

\* a refresh that forgets to stamp the cache
RefreshedUnstamped(t, merged) == [loaded_at |-> 0, data |-> merged]

\* line 113
Refreshed(t, merged) == [loaded_at |-> t, data |-> merged]

\* a failed refresh that stamps the cache all the same
KeepCacheStamped(c, t) == [c EXCEPT !.loaded_at = t]

\* lines 116-118: the cache after a failed refresh
KeepCache(c, t) == c

\* line 99: the cached value is still fresh
Fresh(c, t) == t - c.loaded_at < c.data.refresh_seconds.v

\* fetch_config(): the value returned (or raised), the new _cache and whether
\* an HTTP GET was issued.  resp is the outcome of the GET, if one is made.
fetch_config(c, t, url, resp) ==
    IF c.data.refresh_seconds.t # "int"
    THEN [outcome |-> "raised", ret |-> c.data, cache |-> c, get |-> FALSE]
    ELSE IF url = ""
    THEN [outcome |-> "nourl", ret |-> c.data, cache |-> c, get |-> FALSE]
    ELSE IF Fresh(c, t)
    THEN [outcome |-> "cached", ret |-> c.data, cache |-> c, get |-> FALSE]
    ELSE IF resp.kind = "json" /\ Mergeable(resp.body)
    THEN LET merged == MergeConfig(resp.body.v)
         IN [outcome |-> "refreshed", ret |-> merged,
             cache |-> Refreshed(t, merged), get |-> TRUE]
    ELSE [outcome |-> "failed", ret |-> c.data, cache |-> KeepCache(c, t),
          get |-> TRUE]

----------------------------------------------------------------------------
(* Rotation state: lines 67-86 *)

ZeroState == [shape |-> "dict", rr_index |-> IntV(0), last_day |-> 0]
NoFile == [shape |-> "missing", rr_index |-> AbsentV, last_day |-> 0]
Garbage == [shape |-> "garbage", rr_index |-> AbsentV, last_day |-> 0]
JsonList == [shape |-> "list", rr_index |-> AbsentV, last_day |-> 0]

\* load_state(): json.load of the file, or the zero state when open() or
\* json.load() raises.  Any JSON value is accepted, whatever its shape.
load_state(fl) ==
    IF fl.shape \in {"missing", "garbage"} THEN ZeroState ELSE fl

\* a save_state that never writes
SaveNothing(st, fl, w) == fl

\* save_state(): the new file content; a failing write is only logged
save_state(st, fl, w) == IF w THEN st ELSE fl

\* a cursor that is always read as 0
CursorForgotten(st) == 0

\* int(_state.get("rr_index", 0)), defined when the value is numeric
RRValue(st) == st.rr_index.v

\* str.lower()
Lower(s) ==
    CASE s = "Daily" -> "daily"
      [] s = "ME" -> "me"
      [] OTHER -> s

\* sum(ord(c) for c in slot_hhmm)
OrdSum(s) ==
    CASE s = "11:00" -> 49 + 49 + 58 + 48 + 48
      [] s = "15:00" -> 49 + 53 + 58 + 48 + 48
      [] s = "22:00" -> 50 + 50 + 58 + 48 + 48

\* a daily index without the slot bias
DailyIndexNoBias(day, s, n) == day % n

\* line 188
DailyIndex(day, s, n) == (day + (OrdSum(s) % 97)) % n

\* a selection that always takes the first candidate
RoundRobinIndexFirst(rr, n) == 0

\* line 196
RoundRobinIndex(rr, n) == rr % n

\* a selection that forgets to advance the cursor
NextIndexStuck(rr) == rr

\* line 197
NextIndex(rr) == rr + 1

\* a mode test that does not lower the case
IsDailyExact(rotation) == rotation = "daily"

\* lines 180 and 185
IsDaily(rotation) == Lower(rotation) = "daily"

\* pick_message(cfg, slot_hhmm): the text returned (or raised), the new _state
\* and state file.  day is today's date, w whether the file writes succeed.
\*   sel: a round-robin selection was completed; rr, idx: the rr_index it read
\*   and the index it used.
pick_message(cfg, slot_hhmm, st, fl, day, w) ==
    LET messages == Get(cfg.messages, slot_hhmm, List(<<>>))
        none == [raised |-> FALSE, text |-> "", state |-> st, file |-> fl,
                 sel |-> FALSE, rr |-> 0, idx |-> 0]
    IN
    IF messages.t = "list" /\ messages.v = <<>> THEN none
    ELSE IF IsDaily(cfg.rotation)
    THEN IF messages.t # "list"
         THEN [none EXCEPT !.raised = TRUE]
         ELSE [none EXCEPT
                  !.text = messages.v[DailyIndex(day, slot_hhmm, Len(messages.v)) + 1]]
    ELSE IF st.shape # "dict"
    THEN [none EXCEPT !.raised = TRUE]
    ELSE LET st1 == IF st.last_day # day THEN [st EXCEPT !.last_day = day] ELSE st
             fl1 == IF st.last_day # day THEN save_state(st1, fl, w) ELSE fl
         IN IF st1.rr_index.t = "str" \/ messages.t # "list"
            THEN [none EXCEPT !.raised = TRUE, !.state = st1, !.file = fl1]
            ELSE LET rr == RRValue(st1)
                     idx == RoundRobinIndex(rr, Len(messages.v))
                     st2 == [st1 EXCEPT !.rr_index = IntV(NextIndex(rr))]
                 IN [raised |-> FALSE, text |-> messages.v[idx + 1],
                     state |-> st2, file |-> save_state(st2, fl1, w),
                     sel |-> TRUE, rr |-> rr, idx |-> idx]

----------------------------------------------------------------------------
(* Transport: lines 121-172 *)

\* What one POST attempt meets: an HTTP status, or 0 for an exception of
\* requests.post (timeout, connection error)
Statuses == {200, 500, 0}

\* a loop that takes every answer for a success
AnyAnswerOk(status) == status # 0

\* line 136
StatusOk(status) == status = 200

\* line 141
Backoff(attempt) == 2 * attempt

\* lines 133-142: the loop from attempt number attempt on, rs[i] being what
\* attempt i meets and slept the seconds spent in time.sleep so far
RECURSIVE RetryLoop(_, _, _)
RetryLoop(rs, attempt, slept) ==
    IF attempt > MaxAttempts
    THEN [ok |-> FALSE, attempts |-> MaxAttempts, slept |-> slept]
    ELSE IF StatusOk(rs[attempt])
    THEN [ok |-> TRUE, attempts |-> attempt, slept |-> slept]
    ELSE RetryLoop(rs, attempt + 1, slept + Backoff(attempt))

\* fails attempts without a 200, then 200s
Responses(fails) == [i \in 1..MaxAttempts |-> IF i <= fails THEN 500 ELSE 200]

\* the number of attempts without a 200 before the first 200
RECURSIVE LeadingFails(_, _)
LeadingFails(rs, i) ==
    IF i > Len(rs) \/ rs[i] = 200 THEN 0 ELSE 1 + LeadingFails(rs, i + 1)

\* _post(): fails is the number of attempts answered with an error or a
\* non-200 status before the first 200.  attempts counts the POSTs issued.
_post(dry, fails) ==
    IF dry THEN [ok |-> TRUE, attempts |-> 0]
    ELSE LET r == RetryLoop(Responses(fails), 1, 0)
         IN [ok |-> r.ok, attempts |-> r.attempts]

\* a transport that always addresses the broadcast chat
AlwaysChannel(chat_id) == env.CHAT_ID

\* chat_id or CHAT_ID
ChatOr(chat_id) == IF chat_id = "" THEN env.CHAT_ID ELSE chat_id

\* send_text(text, chat_id): the call as issued and its result
send_text(what, chat_id, fails) ==
    LET r == _post(env.DRY_RUN, fails)
    IN [api |-> "sendMessage", chat_id |-> ChatOr(chat_id), what |-> what,
        attempts |-> r.attempts, ok |-> r.ok]

\* send_photo(photo_ref, chat_id): no call at all without a photo_ref
send_photo(photo_ref, chat_id, fails) ==
    LET r == _post(env.DRY_RUN, fails)
    IN IF photo_ref = "" THEN <<>>
       ELSE <<[api |-> "sendPhoto", chat_id |-> ChatOr(chat_id), what |-> photo_ref,
               attempts |-> r.attempts, ok |-> r.ok]>>

----------------------------------------------------------------------------
(* send_slot: lines 202-229 *)

\* a send_slot that sends whatever pick_message returned
NoTextIgnored(t) == FALSE

\* line 210: if not text
NoText(t) == t = ""

\* a send_slot that goes on to the image after a failed text send
TextFailedIgnored(t) == FALSE

\* line 219: if not ok_text
TextFailed(t) == ~t.ok

\* x: the outcomes the environment contributes to one call:
\*   x.get   outcome of the config GET, if one is made
\*   x.tf    failing attempts of the sendMessage POST
\*   x.pf    failing attempts of the sendPhoto POST
\*   x.w     whether state file writes succeed
send_slot(slot_hhmm, target_chat, x) ==
    LET f == fetch_config(_cache, now, env.CONFIG_URL, x.get)
        p == pick_message(f.ret, slot_hhmm, _state, file, today, x.w)
        nopick == [raised |-> FALSE, text |-> "", state |-> _state, file |-> file,
                   sel |-> FALSE, rr |-> 0, idx |-> 0]
        base == [raised |-> FALSE, ok |-> FALSE, summary |-> "", cfg |-> f.ret,
                 cache |-> f.cache, state |-> p.state, file |-> p.file,
                 posts |-> <<>>, fetch |-> f.outcome, get |-> f.get, pick |-> p]
        t == send_text(p.text, target_chat, x.tf)
        slot_image_key == Get(f.ret.slot_image, slot_hhmm, "")
        photo_ref == Get(f.ret.images, slot_image_key, "")
        ph == send_photo(photo_ref, target_chat, x.pf)
    IN
    IF f.outcome = "raised"
    THEN [base EXCEPT !.raised = TRUE, !.state = _state, !.file = file,
                      !.pick = nopick]
    ELSE IF p.raised THEN [base EXCEPT !.raised = TRUE]
    ELSE IF NoText(p.text) THEN [base EXCEPT !.summary = "no text configured"]
    ELSE IF TextFailed(t)
    THEN [base EXCEPT !.summary = "send_text failed", !.posts = <<t>>]
    ELSE IF ph # <<>> /\ ~ph[1].ok
    THEN [base EXCEPT !.summary = "send_photo failed", !.posts = <<t>> \o ph]
    ELSE [base EXCEPT !.ok = TRUE, !.summary = "ok", !.posts = <<t>> \o ph]

----------------------------------------------------------------------------
(* Commands: lines 264-306.  A text is modelled by its token list,         *)
(* (text or "").strip().split().                                           *)

None == <<>>
Usage == <<"usage", "help">>

\* slot_map.get(slot); "" stands for None
SlotMap(slot) ==
    CASE slot \in {"11", "11:00"} -> "11:00"
      [] slot \in {"15", "15:00"} -> "15:00"
      [] slot \in {"22", "22:00"} -> "22:00"
      [] OTHER -> ""

\* handle_command(text)
handle_command(parts) ==
    IF parts = <<>> THEN None
    ELSE IF parts[1] # "/test" THEN None
    ELSE IF Len(parts) = 2
    THEN IF SlotMap(parts[2]) = "" THEN Usage ELSE <<"channel", SlotMap(parts[2])>>
    ELSE IF Len(parts) = 3 /\ Lower(parts[2]) = "me"
    THEN IF SlotMap(parts[3]) = "" THEN Usage ELSE <<"me", SlotMap(parts[3])>>
    ELSE None

\* an authorization check that lets every sender through
AnyoneIsAdmin(upd) == TRUE

\* is_admin_user(update); a missing sender raises inside the try
is_admin_user(upd) ==
    IF env.ADMIN_CHAT_ID = "" THEN TRUE
    ELSE upd.from # "missing" /\ upd.from = env.ADMIN_CHAT_ID

\* text.startswith("/")
StartsWithSlash(parts) == parts # <<>> /\ parts[1] \in {"/test", "/start"}

----------------------------------------------------------------------------
(* The environment of the process *)

Envs ==
    [CHAT_ID : {"channel"}, CONFIG_URL : {"url"},
     ADMIN_CHAT_ID : {"", "admin"}, DRY_RUN : {FALSE}]

\* Documents served at CONFIG_URL
DocLists ==
    Obj([messages |-> Obj(("11:00" :> List(<<>>)) @@ ("15:00" :> List(<<"X", "Y">>))
                          @@ ("22:00" :> Num)),
         images |-> Obj([right |-> "urlR"])])
DocDaily == Obj([rotation |-> "Daily"])
DocBadRefresh == Obj([refresh_seconds |-> StrV])
DocShortRefresh == Obj([refresh_seconds |-> IntV(DefaultRefresh \div 2)])
DocBadMessages == Obj([messages |-> Scalar])
DocImage == Obj([images |-> Obj([left |-> "urlL"])])

\* the bodies a GET may return while slots are sent
Bodies == {Obj(EmptyDict), DocLists, DocDaily, DocBadRefresh}

\* Contents of STATE_FILE found at start
InitFiles ==
    {NoFile, Garbage, JsonList}
    \cup {[shape |-> "dict", rr_index |-> IntV(n), last_day |-> d] :
             n \in 0..MaxFileRR, d \in {0, 1}}
    \cup {[shape |-> "dict", rr_index |-> r, last_day |-> 1] : r \in {StrV, AbsentV}}

\* Outcomes of one transport send: immediate success, or every attempt fails
SendOutcomes == {0, MaxAttempts}

\* Outcomes of the state-file writes of a send_slot call.  Failing writes are
\* followed in SpecState.
WriteOutcomes == {TRUE}

\* Inbound updates: sender id, chat id ("None" is str(None)) and the tokens.
\* CHAT_ID may be a group (line 25): u2 writes in the broadcast chat itself.
Upd(from, chat, parts) == [from |-> from, chat |-> chat, parts |-> parts]
Updates ==
    {Upd("admin", "admin", p) :
        p \in {<<"hello">>, <<"/test">>, <<"/test", "11">>,
               <<"/test", "abc">>, <<"/test", "ME", "15:00">>,
               <<"/test", "11", "22">>}}
    \cup {Upd("u2", "channel", <<"/test", "me", "22">>)}
    \cup {Upd("missing", "None", <<"/test", "11">>)}
NoUpd == Upd("missing", "None", <<>>)

----------------------------------------------------------------------------
(* Observation of the last operation *)

NoPick == [raised |-> FALSE, text |-> "", state |-> ZeroState, file |-> NoFile,
           sel |-> FALSE, rr |-> 0, idx |-> 0]

NoOp == [kind |-> "init", day |-> 0, slot |-> "", target |-> "", upd |-> NoUpd,
         route |-> "",
         called |-> FALSE, raised |-> FALSE, ok |-> FALSE, summary |-> "",
         fetch |-> "none", get |-> FALSE, cfg |-> DEFAULT_CONFIG,
         before |-> ZeroState, pick |-> NoPick, posts |-> <<>>, reply |-> <<>>]

\* the observation of a send_slot call with result r
SlotOp(kind, slot, target, upd, route, r, reply) ==
    [kind |-> kind, day |-> today, slot |-> slot, target |-> target, upd |-> upd,
     route |-> route,
     called |-> TRUE, raised |-> r.raised, ok |-> r.ok, summary |-> r.summary,
     fetch |-> r.fetch, get |-> r.get, cfg |-> r.cfg, before |-> _state,
     pick |-> [r.pick EXCEPT !.state = ZeroState, !.file = NoFile],
     posts |-> r.posts, reply |-> reply]

Candidates(cfg, slot) == Get(cfg.messages, slot, List(<<>>))

\* The outcomes the environment contributes to a send_slot call: one for each
\* request the call makes.
Inputs(slot, target, gets) ==
    LET X(g, tf, pf) == [get |-> g, tf |-> tf, pf |-> pf, w |-> TRUE]
        G == IF fetch_config(_cache, now, env.CONFIG_URL, GetError).get
             THEN gets ELSE {GetError}
        TF(g) == IF send_slot(slot, target, X(g, 0, 0)).posts = <<>>
                 THEN {0} ELSE SendOutcomes
        PF(g) == IF Len(send_slot(slot, target, X(g, 0, 0)).posts) < 2
                 THEN {0} ELSE SendOutcomes
    IN UNION {{[get |-> g, tf |-> tf, pf |-> pf, w |-> w] :
                  tf \in TF(g), pf \in PF(g), w \in WriteOutcomes} : g \in G}

----------------------------------------------------------------------------
(* Sequential operation: every send_slot call runs to completion *)

Idle == [t \in {"scheduler", "poller"} |-> [pc |-> "idle", idx |-> 0, tmp |-> 0]]
Pending == <<"pending">>

\* no _post call made yet
NotPosted == [ok |-> FALSE, attempts |-> 0, slept |-> 0]

\* no _post call made yet, the poll loop not started (line 314), no write failed
Unstarted ==
    /\ resps = <<>>
    /\ posted = NotPosted
    /\ offset = 0
    /\ inbox = <<>>
    /\ batch = <<>>
    /\ handled = <<>>
    /\ writeFailed = FALSE

\* what the specifications that do not use a variable leave it at
Rest ==
    /\ remote = Obj(EmptyDict)
    /\ fetchLog = <<>>
    /\ selected = {}
    /\ pos = 1
    /\ thr = Idle
    /\ sel = [start |-> 0, used |-> <<>>]
    /\ text = <<>>
    /\ parsed = Pending
    /\ Unstarted

Init ==
    /\ env \in Envs
    /\ now = StartTime
    /\ today = 1
    /\ _cache = [loaded_at |-> 0, data |-> DEFAULT_CONFIG]
    /\ file \in InitFiles
    /\ _state = load_state(file)
    /\ op = NoOp
    /\ Rest

\* time passes
TimePasses(d) ==
    /\ now + d <= MaxTime
    /\ now' = now + d

Tick ==
    /\ TimePasses(DefaultRefresh)
    /\ UNCHANGED <<env, today, remote, _cache, _state, file, op, fetchLog,
                   selected, pos, thr, sel, text, parsed, others>>

\* midnight passes
NextDay ==
    /\ today < MaxDay
    /\ today' = today + 1
    /\ UNCHANGED <<env, now, remote, _cache, _state, file, op, fetchLog,
                   selected, pos, thr, sel, text, parsed, others>>

CanSelect == _state.rr_index.v < MaxRR

AllGets == {GetError} \cup {GetJson(b) : b \in Bodies}

\* the effect of a send_slot call with result r
Effect(r, o) ==
    /\ _cache' = r.cache
    /\ _state' = r.state
    /\ file' = r.file
    /\ op' = o

\* scheduled_job(slot): lines 232-237
ScheduledJob ==
    \E slot \in Slots :
        /\ CanSelect
        /\ \E x \in Inputs(slot, "", AllGets) :
              LET r == send_slot(slot, "", x)
              IN Effect(r, SlotOp("job", slot, "", NoUpd, "job", r, <<>>))
        /\ UNCHANGED <<env, now, today, remote, fetchLog, selected, pos, thr, sel,
                       text, parsed, others>>

\* an update that the poll loop drops: lines 333-341
Skip(upd, route) ==
    /\ op' = [NoOp EXCEPT !.kind = "poll", !.day = today, !.upd = upd, !.route = route]
    /\ UNCHANGED <<_cache, _state, file>>

\* send_slot and the echo of its outcome: lines 350-361
Routed(upd, route, slot, target, echo) ==
    \E x \in Inputs(slot, target, AllGets) :
        LET r == send_slot(slot, target, x)
        IN IF r.raised \/ echo = ""
           THEN Effect(r, SlotOp("poll", slot, target, upd, route, r, <<>>))
           ELSE \E rf \in SendOutcomes :
                   Effect(r, SlotOp("poll", slot, target, upd, route, r,
                                    <<send_text(r.summary, echo, rf)>>))

\* the body of the for loop for one update: lines 331-361
Handle(upd) ==
    LET cmd == handle_command(upd.parts)
        me == IF env.ADMIN_CHAT_ID = "" THEN upd.chat ELSE env.ADMIN_CHAT_ID
    IN
    IF ~StartsWithSlash(upd.parts) THEN Skip(upd, "not_command")
    ELSE IF ~is_admin_user(upd) THEN Skip(upd, "unauthorized")
    ELSE IF cmd = None THEN Skip(upd, "ignored")
    ELSE IF cmd[1] = "usage"
    THEN \E rf \in SendOutcomes :
            /\ op' = [NoOp EXCEPT !.kind = "poll", !.day = today, !.upd = upd,
                         !.route = "usage",
                         !.reply = <<send_text("help", upd.chat, rf)>>]
            /\ UNCHANGED <<_cache, _state, file>>
    ELSE IF cmd[1] = "me" THEN Routed(upd, "me", cmd[2], me, me)
    ELSE Routed(upd, "channel", cmd[2], "", env.ADMIN_CHAT_ID)

\* the poll loop handles an update
PollUpdate ==
    \E upd \in Updates :
        /\ CanSelect
        /\ Handle(upd)
        /\ UNCHANGED <<env, now, today, remote, fetchLog, selected, pos, thr, sel,
                       text, parsed, others>>

Next == Tick \/ NextDay \/ ScheduledJob \/ PollUpdate

Spec == Init /\ [][Next]_vars

----------------------------------------------------------------------------
(* fetch_config on its own: calls made one at a time by send_slot (line    *)
(* 207) and self_check (line 250), while time passes and the remote        *)
(* document changes                                                        *)

ConfigBodies ==
    {Obj(EmptyDict), DocShortRefresh, DocBadRefresh, DocBadMessages, DocImage, Scalar}

ConfigGets == {GetError} \cup {GetJson(b) : b \in ConfigBodies}

InitConfig ==
    /\ env \in [CHAT_ID : {"channel"}, CONFIG_URL : {"", "url"},
                ADMIN_CHAT_ID : {"admin"}, DRY_RUN : {FALSE}]
    /\ now = StartTime
    /\ today = 1
    /\ _cache = [loaded_at |-> 0, data |-> DEFAULT_CONFIG]
    /\ file = NoFile
    /\ _state = ZeroState
    /\ op = NoOp
    /\ Rest

Clock ==
    /\ \E d \in TimeSteps : TimePasses(d)
    /\ UNCHANGED <<env, today, remote, _cache, _state, file, op, fetchLog,
                   selected, pos, thr, sel, text, parsed, others>>

\* the log with entry e appended, cut to the last MaxLog calls
Logged(e) ==
    IF Len(fetchLog) < MaxLog THEN Append(fetchLog, e)
    ELSE Append(Tail(fetchLog), e)

\* one call of fetch_config()
FetchCall ==
    \E g \in IF fetch_config(_cache, now, env.CONFIG_URL, GetError).get
             THEN ConfigGets ELSE {GetError} :
        LET f == fetch_config(_cache, now, env.CONFIG_URL, g)
        IN /\ _cache' = f.cache
           /\ fetchLog' = Logged([at |-> now, get |-> f.get, outcome |-> f.outcome,
                                  doc |-> g.body,
                                  refresh |-> _cache.data.refresh_seconds.v,
                                  before |-> _cache, ret |-> f.ret])
           /\ UNCHANGED <<env, now, today, remote, _state, file, op, selected, pos,
                          thr, sel, text, parsed, others>>

NextConfig == Clock \/ FetchCall

SpecConfig == InitConfig /\ [][NextConfig]_vars

LastFetch == fetchLog[Len(fetchLog)]

----------------------------------------------------------------------------
(* handle_command on its own, applied to every token list up to MaxParts   *)

Tokens == {"/test", "/start", "me", "ME", "11", "15:00", "22", "abc"}
Texts == UNION {[1..n -> Tokens] : n \in 0..MaxParts}

InitCmd ==
    /\ env \in [CHAT_ID : {"channel"}, CONFIG_URL : {""}, ADMIN_CHAT_ID : {""},
                DRY_RUN : {FALSE}]
    /\ now = StartTime
    /\ today = 1
    /\ _cache = [loaded_at |-> 0, data |-> DEFAULT_CONFIG]
    /\ file = NoFile
    /\ _state = ZeroState
    /\ op = NoOp
    /\ remote = Obj(EmptyDict)
    /\ fetchLog = <<>>
    /\ selected = {}
    /\ pos = 1
    /\ thr = Idle
    /\ sel = [start |-> 0, used |-> <<>>]
    /\ text \in Texts
    /\ parsed = Pending
    /\ Unstarted

\* line 339
Parse ==
    /\ parsed = Pending
    /\ parsed' = handle_command(text)
    /\ UNCHANGED <<env, now, today, remote, _cache, _state, file, op, fetchLog,
                   selected, pos, thr, sel, text, others>>

SpecCmd == InitCmd /\ [][Parse]_vars

----------------------------------------------------------------------------
(* Two threads inside pick_message: the scheduler's job thread and the     *)
(* main thread's poll loop (lines 368-387), round_robin mode, default      *)
(* config.  One step per read or write of _state and per file write.       *)

Threads == {"scheduler", "poller"}

InitConc ==
    /\ env \in [CHAT_ID : {"channel"}, CONFIG_URL : {""}, ADMIN_CHAT_ID : {"admin"},
                DRY_RUN : {FALSE}]
    /\ now = StartTime
    /\ today = 1
    /\ _cache = [loaded_at |-> 0, data |-> DEFAULT_CONFIG]
    /\ file \in {NoFile} \cup {[shape |-> "dict", rr_index |-> IntV(n), last_day |-> d] :
                                  n \in 0..MaxFileRR, d \in {0, 1}}
    /\ _state = load_state(file)
    /\ op = NoOp
    /\ remote = Obj(EmptyDict)
    /\ fetchLog = <<>>
    /\ selected = {}
    /\ pos = 1
    /\ thr = Idle
    /\ sel = [start |-> RRValue(load_state(file)), used |-> <<>>]
    /\ text = <<>>
    /\ parsed = Pending
    /\ Unstarted

Active == {t \in Threads : thr[t].pc # "idle"}

Goto(t, pc) == thr' = [thr EXCEPT ![t].pc = pc]

ConcFrame == UNCHANGED <<env, now, today, remote, _cache, op, fetchLog, selected,
                         pos, text, parsed, others>>

\* a thread enters pick_message with a non-empty candidate list
Enter(t) ==
    /\ thr[t].pc = "idle"
    /\ Len(sel.used) + Cardinality(Active) < MaxRR
    /\ Goto(t, "l192")
    /\ UNCHANGED <<_state, file, sel>> /\ ConcFrame

\* line 192
CheckDay(t) ==
    /\ thr[t].pc = "l192"
    /\ Goto(t, IF _state.last_day # today THEN "l193" ELSE "l196")
    /\ UNCHANGED <<_state, file, sel>> /\ ConcFrame

\* line 193
SetDay(t) ==
    /\ thr[t].pc = "l193"
    /\ _state' = [_state EXCEPT !.last_day = today]
    /\ Goto(t, "l194")
    /\ UNCHANGED <<file, sel>> /\ ConcFrame

\* line 194
SaveDay(t) ==
    /\ thr[t].pc = "l194"
    /\ file' = save_state(_state, file, TRUE)
    /\ Goto(t, "l196")
    /\ UNCHANGED <<_state, sel>> /\ ConcFrame

\* line 196: idx is computed from the rr_index read here
ReadIndex(t) ==
    /\ thr[t].pc = "l196"
    /\ thr' = [thr EXCEPT ![t] = [pc |-> "l197", idx |-> RRValue(_state), tmp |-> 0]]
    /\ UNCHANGED <<_state, file, sel>> /\ ConcFrame

\* line 197, right-hand side
ReadCursor(t) ==
    /\ thr[t].pc = "l197"
    /\ thr' = [thr EXCEPT ![t].pc = "l197w", ![t].tmp = NextIndex(RRValue(_state))]
    /\ UNCHANGED <<_state, file, sel>> /\ ConcFrame

\* line 197, the store
WriteCursor(t) ==
    /\ thr[t].pc = "l197w"
    /\ _state' = [_state EXCEPT !.rr_index = IntV(thr[t].tmp)]
    /\ Goto(t, "l198")
    /\ UNCHANGED <<file, sel>> /\ ConcFrame

\* line 198
SaveCursor(t) ==
    /\ thr[t].pc = "l198"
    /\ file' = save_state(_state, file, TRUE)
    /\ Goto(t, "l199")
    /\ UNCHANGED <<_state, sel>> /\ ConcFrame

\* line 199
Return(t) ==
    /\ thr[t].pc = "l199"
    /\ sel' = [sel EXCEPT !.used = Append(@, thr[t].idx)]
    /\ thr' = [thr EXCEPT ![t] = [pc |-> "idle", idx |-> 0, tmp |-> 0]]
    /\ UNCHANGED <<_state, file>> /\ ConcFrame

NextConc ==
    \E t \in Threads :
        \/ Enter(t) \/ CheckDay(t) \/ SetDay(t) \/ SaveDay(t) \/ ReadIndex(t)
        \/ ReadCursor(t) \/ WriteCursor(t) \/ SaveCursor(t) \/ Return(t)

SpecConc == InitConc /\ [][NextConc]_vars

----------------------------------------------------------------------------
(* The daily order: the three cron triggers (lines 374-378) fire as        *)
(* 11:00, 15:00, 22:00, day after day, and nothing else calls send_slot.   *)
(* The remote document does not change; self_check() has fetched it.       *)

Order == <<"11:00", "15:00", "22:00">>

\* the candidates 1..n
Numbered(n) == [i \in 1..n |-> ToString(i)]

DailyDocs ==
    {Obj([messages |-> Obj([s \in Slots |-> List(Numbered(n[s]))])]) :
        n \in [Slots -> 0..MaxCand]}

RECURSIVE GCD(_, _)
GCD(a, b) == IF b = 0 THEN a ELSE GCD(b, a % b)

RECURSIVE LCMUpTo(_)
LCMUpTo(n) == IF n <= 1 THEN 1 ELSE (LCMUpTo(n - 1) * n) \div GCD(LCMUpTo(n - 1), n)

\* The daily order never ends, so its counters are followed up to what the
\* code can tell apart:
\*  - line 196 uses rr_index only modulo len(messages), and every list length
\*    divides Period, so rr_index is kept modulo Period;
\*  - line 192 only compares last_day with today, so the date is kept modulo
\*    MaxDay (a day on which a slot is selected always follows one);
\*  - line 99 only uses now - loaded_at, and at least DefaultRefresh seconds
\*    pass between two triggers, so loaded_at moves back instead of now
\*    moving on.
Period == LCMUpTo(MaxCand)

WrapIndex(st) ==
    IF st.shape = "dict" /\ st.rr_index.t = "int"
    THEN [st EXCEPT !.rr_index = IntV(@.v % Period)]
    ELSE st

Rebase(c) ==
    [c EXCEPT !.loaded_at = IF @ > DefaultRefresh THEN @ - DefaultRefresh ELSE 0]

InitDaily ==
    /\ env \in [CHAT_ID : {"channel"}, CONFIG_URL : {"url"}, ADMIN_CHAT_ID : {"admin"},
                DRY_RUN : {FALSE}]
    /\ now = StartTime
    /\ today = 1
    /\ remote \in DailyDocs
    /\ _cache = fetch_config([loaded_at |-> 0, data |-> DEFAULT_CONFIG], StartTime,
                             env.CONFIG_URL, GetJson(remote)).cache
    /\ file \in {NoFile} \cup {[shape |-> "dict", rr_index |-> IntV(n), last_day |-> 0] :
                                  n \in 0..MaxFileRR}
    /\ _state = load_state(file)
    /\ op = NoOp
    /\ fetchLog = <<>>
    /\ selected = {}
    /\ pos = 1
    /\ thr = Idle
    /\ sel = [start |-> 0, used |-> <<>>]
    /\ text = <<>>
    /\ parsed = Pending
    /\ Unstarted

\* the next trigger of the day fires scheduled_job
DailyFire ==
    /\ \E x \in Inputs(Order[pos], "", {GetError, GetJson(remote)}) :
          LET r == send_slot(Order[pos], "", x)
          IN /\ _cache' = Rebase(r.cache)
             /\ _state' = WrapIndex(r.state)
             /\ file' = WrapIndex(r.file)
             /\ op' = SlotOp("job", Order[pos], "", NoUpd, "job", r, <<>>)
             /\ selected' = IF r.raised \/ r.pick.text = "" THEN selected
                            ELSE selected \cup {<<Order[pos], r.pick.text>>}
    /\ pos' = (pos % Len(Order)) + 1
    /\ today' = IF pos = Len(Order) THEN (today % MaxDay) + 1 ELSE today
    /\ UNCHANGED <<env, now, remote, fetchLog, thr, sel, text, parsed, others>>

\* The cron triggers keep firing.  Every step of the daily order moves pos to
\* the next trigger and DailyFire is always enabled, so weak fairness of
\* Trigger on pos is weak fairness of DailyFire.
Trigger == pos' = (pos % Len(Order)) + 1

SpecDaily == InitDaily /\ [][DailyFire]_vars /\ WF_pos(Trigger)

----------------------------------------------------------------------------
(* One transport send: send_slot for the 15:00 slot of a config with a     *)
(* photo, the API answering the attempts of the sendMessage POST with      *)
(* resps                                                                   *)

InitPost ==
    /\ env \in [CHAT_ID : {"channel"}, CONFIG_URL : {"url"}, ADMIN_CHAT_ID : {"admin"},
                DRY_RUN : {FALSE, TRUE}]
    /\ now = StartTime
    /\ today = 1
    /\ _cache = fetch_config([loaded_at |-> 0, data |-> DEFAULT_CONFIG], StartTime,
                             env.CONFIG_URL, GetJson(DocLists)).cache
    /\ file = NoFile
    /\ _state = ZeroState
    /\ op = NoOp
    /\ remote = Obj(EmptyDict)
    /\ fetchLog = <<>>
    /\ selected = {}
    /\ pos = 1
    /\ thr = Idle
    /\ sel = [start |-> 0, used |-> <<>>]
    /\ text = <<>>
    /\ parsed = Pending
    /\ resps \in [1..MaxAttempts -> Statuses]
    /\ posted = NotPosted
    /\ offset = 0 /\ inbox = <<>> /\ batch = <<>> /\ handled = <<>>
    /\ writeFailed = FALSE

\* scheduled_job("15:00"); posted is what the _post call of send_text returns
Post ==
    /\ posted = NotPosted
    /\ posted' = IF env.DRY_RUN THEN [ok |-> TRUE, attempts |-> 0, slept |-> 0]
                 ELSE RetryLoop(resps, 1, 0)
    /\ \E pf \in SendOutcomes :
          LET r == send_slot("15:00", "", [get |-> GetError, pf |-> pf, w |-> TRUE,
                                          tf |-> LeadingFails(resps, 1)])
          IN Effect(r, SlotOp("job", "15:00", "", NoUpd, "job", r, <<>>))
    /\ UNCHANGED <<env, now, today, remote, fetchLog, selected, pos, thr, sel, text,
                   parsed, resps, offset, inbox, batch, handled, writeFailed>>

SpecPost == InitPost /\ [][Post]_vars

----------------------------------------------------------------------------
(* The poll loop: lines 314-365.  The API numbers the updates it receives  *)
(* 1, 2, ...; getUpdates with offset o answers with updates of id >= o, in  *)
(* increasing order, and forgets those below o.                            *)

PollUpdates ==
    {Upd("admin", "admin", p) : p \in {<<"hello">>, <<"/test", "11">>,
                                       <<"/test", "me", "22">>}}

InitPoll ==
    /\ env \in [CHAT_ID : {"channel"}, CONFIG_URL : {""}, ADMIN_CHAT_ID : {"admin"},
                DRY_RUN : {FALSE}]
    /\ now = StartTime
    /\ today = 1
    /\ _cache = [loaded_at |-> 0, data |-> DEFAULT_CONFIG]
    /\ file \in {NoFile, JsonList}
    /\ _state = load_state(file)
    /\ op = NoOp
    /\ Rest

\* an update reaches the API
Arrive ==
    /\ Len(inbox) < MaxUpd
    /\ \E u \in PollUpdates : inbox' = Append(inbox, u)
    /\ UNCHANGED <<env, now, today, remote, _cache, _state, file, op, fetchLog,
                   selected, pos, thr, sel, text, parsed, resps, posted, offset,
                   batch, handled, writeFailed>>

\* the ids getUpdates can answer with: those not below the offset
Unconfirmed == {id \in 1..Len(inbox) : id >= offset}

\* lines 320-328: getUpdates answers with the first n unconfirmed updates.
\* (A failed request, line 363, or an answer that is not ok, line 324, leaves
\* everything as it is.)
GetUpdates ==
    /\ batch = <<>>
    /\ \E n \in 1..Cardinality(Unconfirmed) :
          batch' = [i \in 1..n |-> (Len(inbox) - Cardinality(Unconfirmed)) + i]
    /\ UNCHANGED <<env, now, today, remote, _cache, _state, file, op, fetchLog,
                   selected, pos, thr, sel, text, parsed, resps, posted, offset,
                   inbox, handled, writeFailed>>

\* an offset that stays on the update being handled
NextOffsetSame(id) == id

\* line 329
NextOffset(id) == id + 1

\* one round of the for loop, lines 328-361; an exception raised while the
\* update is handled ends the for loop (line 363)
HandleNext ==
    /\ batch # <<>>
    /\ CanSelect
    /\ offset' = NextOffset(Head(batch))
    /\ handled' = Append(handled, Head(batch))
    /\ Handle(inbox[Head(batch)])
    /\ batch' = IF op'.raised THEN <<>> ELSE Tail(batch)
    /\ UNCHANGED <<env, now, today, remote, fetchLog, selected, pos, thr, sel, text,
                   parsed, resps, posted, inbox, writeFailed>>

NextPoll == Arrive \/ GetUpdates \/ HandleNext

SpecPoll == InitPoll /\ [][NextPoll]_vars

----------------------------------------------------------------------------
(* The rotation state over the life of the state file: selections whose    *)
(* file writes may fail (lines 85-86), midnights and restarts of the       *)
(* process (lines 368-369), with the default config.  A write that fails   *)
(* leaves the file as it was.                                              *)

InitState ==
    /\ env \in [CHAT_ID : {"channel"}, CONFIG_URL : {""}, ADMIN_CHAT_ID : {"admin"},
                DRY_RUN : {FALSE}]
    /\ now = StartTime
    /\ today = 1
    /\ _cache = [loaded_at |-> 0, data |-> DEFAULT_CONFIG]
    /\ file \in InitFiles
    /\ _state = load_state(file)
    /\ op = NoOp
    /\ Rest

\* scheduled_job(slot), the writes of STATE_FILE succeeding (w) or not
StateJob ==
    \E slot \in Slots, tf \in SendOutcomes, w \in BOOLEAN :
        /\ CanSelect
        /\ LET r == send_slot(slot, "", [get |-> GetError, tf |-> tf, pf |-> 0, w |-> w])
           IN /\ Effect(r, SlotOp("job", slot, "", NoUpd, "job", r, <<>>))
              /\ writeFailed' = (writeFailed \/ (~w /\ r.state # _state))
        /\ UNCHANGED <<env, now, today, remote, fetchLog, selected, pos, thr, sel,
                       text, parsed, resps, posted, offset, inbox, batch, handled>>

\* the process is started again: the module state is rebuilt (lines 65, 69)
\* and main() calls load_state()
Restart ==
    /\ _state' = load_state(file)
    /\ _cache' = [loaded_at |-> 0, data |-> DEFAULT_CONFIG]
    /\ op' = [NoOp EXCEPT !.kind = "restart", !.day = today, !.before = _state]
    /\ writeFailed' = FALSE
    /\ UNCHANGED <<env, now, today, remote, file, fetchLog, selected, pos, thr, sel,
                   text, parsed, resps, posted, offset, inbox, batch, handled>>

NextState == StateJob \/ NextDay \/ Restart

SpecState == InitState /\ [][NextState]_vars

----------------------------------------------------------------------------
(* Claims *)

\* the last operation called pick_message with a non-empty candidate list in
\* a round-robin mode, on a rotation state that holds an integer rr_index
Selecting ==
    /\ op.called
    /\ op.fetch # "raised"
    /\ Lower(op.cfg.rotation) # "daily"
    /\ Candidates(op.cfg, op.slot).t = "list"
    /\ Candidates(op.cfg, op.slot).v # <<>>
    /\ op.before.shape = "dict"
    /\ op.before.rr_index.t # "str"

\* C1: in round_robin mode, with send_slot calls running one at a time, every
\* pick_message call that finds a non-empty candidate list returns
\* candidates[rr_index_before mod N] and leaves rr_index one higher, whether
\* or not the sends that follow succeed; rr_index never decreases.
C1_RoundRobinAdvance ==
    /\ [](Selecting =>
            LET c == Candidates(op.cfg, op.slot).v
                rr == op.before.rr_index.v
            IN /\ ~op.raised
               /\ _state.rr_index = IntV(rr + 1)
               /\ op.pick.text = c[(rr % Len(c)) + 1]
               /\ op.summary # "no text configured")
    /\ [][_state'.rr_index.v >= _state.rr_index.v]_vars

\* C1 witness: a selection that wraps around a list of 3 (rr_index 3 selects
\* the first candidate and leaves 4) and whose text send then fails
C1_Witness ==
    /\ Selecting
    /\ op.before.rr_index.v = 3
    /\ op.pick.text = "11A"
    /\ _state.rr_index.v = 4
    /\ op.summary = "send_text failed"

\* C7 (as claimed): send_slot never raises, whatever the effective config,
\* the rotation state load_state produced and the transport outcomes.
C7_NeverRaises == op.called => ~op.raised

\* the candidate list of the last send_slot call was empty or absent
EmptySlot ==
    /\ op.called
    /\ op.fetch # "raised"
    /\ Candidates(op.cfg, op.slot) = List(<<>>)

\* C8 (as claimed): for a slot whose candidate list in the effective config is
\* empty, send_slot returns failure "no text configured" and performs no
\* network call at all.
C8_NoNetworkAtAll ==
    EmptySlot => /\ ~op.raised /\ ~op.ok
                 /\ op.summary = "no text configured"
                 /\ op.posts = <<>>
                 /\ ~op.get

\* C8 (amended): for a slot whose candidate list in the effective config is
\* empty, send_slot returns failure "no text configured" and issues no
\* sendMessage and no sendPhoto POST, and leaves the rotation state alone; the
\* config GET of fetch_config may have been issued.
C8_NoTransportCall ==
    EmptySlot => /\ ~op.raised /\ ~op.ok
                 /\ op.summary = "no text configured"
                 /\ op.posts = <<>>
                 /\ _state = op.before

\* C8 witness: a send_slot call for an empty slot that fetched the config
C8_Witness ==
    EmptySlot /\ op.get /\ op.summary = "no text configured" /\ op.slot = "11:00"

\* C9 (as claimed): once the poll loop has handled a /test command of an
\* authorized sender, an acknowledgment has been sent with send_text,
\* whatever ADMIN_CHAT_ID and the arguments are.
C9_AlwaysAcknowledged ==
    (/\ op.kind = "poll"
     /\ is_admin_user(op.upd)
     /\ op.upd.parts # <<>>
     /\ op.upd.parts[1] = "/test") => op.reply # <<>>

\* Two calls of the log, i before j, made within the refresh_seconds that was
\* cached when call j started
Within(i, j) ==
    /\ i \in 1..Len(fetchLog) /\ j \in 1..Len(fetchLog) /\ i < j
    /\ fetchLog[j].at - fetchLog[i].at < fetchLog[j].refresh

\* C4 (as claimed): two fetch_config calls within refresh_seconds of each
\* other trigger at most one HTTP GET, whatever the outcome of that GET.
C4_AtMostOneGet ==
    \A i, j \in 1..MaxLog :
        Within(i, j) => ~(fetchLog[i].get /\ fetchLog[j].get)

\* C4 (amended): of two fetch_config calls made one after the other within
\* refresh_seconds of each other, both issue an HTTP GET only if the GET of
\* the earlier one failed; after a GET that succeeded the later call issues
\* none.
C4_OneGetUnlessFailed ==
    \A i, j \in 1..MaxLog :
        Within(i, j) /\ fetchLog[i].get /\ fetchLog[j].get
            => fetchLog[i].outcome = "failed"

\* C4 witness: a call that refreshed the cache, then a call within the (new)
\* refresh interval that was served from the cache
C4_Witness ==
    /\ Len(fetchLog) >= 2
    /\ Within(Len(fetchLog) - 1, Len(fetchLog))
    /\ fetchLog[Len(fetchLog) - 1].outcome = "refreshed"
    /\ LastFetch.outcome = "cached"
    /\ LastFetch.at > fetchLog[Len(fetchLog) - 1].at

\* C5: a failed remote fetch leaves _cache as it was (data and loaded_at),
\* returns the previously cached config, and the next call fetches again.
C5_FailureKeepsCache ==
    (fetchLog # <<>> /\ LastFetch.outcome = "failed") =>
        /\ _cache = LastFetch.before
        /\ LastFetch.ret = LastFetch.before.data
        /\ fetch_config(_cache, now, env.CONFIG_URL, GetError).get

\* C5 witness: a failed fetch after an earlier document had been cached
C5_Witness ==
    /\ fetchLog # <<>>
    /\ LastFetch.outcome = "failed"
    /\ LastFetch.before.loaded_at > 0
    /\ _cache.data # DEFAULT_CONFIG

\* C6 (as claimed): every fetch_config call returns a config without raising,
\* whatever documents were fetched before.
C6_AlwaysUsable ==
    \A i \in 1..Len(fetchLog) : fetchLog[i].outcome # "raised"

\* C10 (as claimed): handle_command returns None exactly when the text is
\* empty or its first token is not /test; for a first token /test it returns
\* (channel, slot) for "/test <slot>", (me, slot) for "/test me <slot>" (me in
\* any case) with a slot of the table, and the usage pseudo-command for any
\* other shape.
C10_Grammar ==
    parsed # Pending =>
        IF text = <<>> \/ text[1] # "/test" THEN parsed = None
        ELSE IF Len(text) = 2 /\ SlotMap(text[2]) # ""
        THEN parsed = <<"channel", SlotMap(text[2])>>
        ELSE IF Len(text) = 3 /\ Lower(text[2]) = "me" /\ SlotMap(text[3]) # ""
        THEN parsed = <<"me", SlotMap(text[3])>>
        ELSE parsed = Usage

\* C2 (as claimed): with the scheduler thread and the poll loop inside
\* pick_message at the same time, no two selections use the same rr_index, no
\* increment is lost (with both threads idle rr_index has grown by the number
\* of completed selections) and no store lowers rr_index.
C2_Serialized ==
    /\ \A i, j \in 1..Len(sel.used) : i # j => sel.used[i] # sel.used[j]
    /\ Active = {} => RRValue(_state) = sel.start + Len(sel.used)
    /\ \A t \in Threads : thr[t].pc = "l197w" => thr[t].tmp >= RRValue(_state)

\* candidates of a slot in the cached config, and whether all were selected
Cands(s) == Candidates(_cache.data, s).v
Covered(s) == \A i \in 1..Len(Cands(s)) : <<s, Cands(s)[i]>> \in selected

\* the slots that advance rr_index when fired
Advancing == {s \in Slots : Cands(s) # <<>>}

\* C3 (as claimed): under the daily order repeated forever, every candidate
\* of every slot is eventually selected.
C3_EventualCoverage == <>(\A s \in Slots : Covered(s))

\* C3 (amended): under the daily order repeated forever, with K slots that
\* have candidates, every candidate of a slot with N candidates is eventually
\* selected if N is coprime to K, and otherwise some candidate of the slot is
\* never selected.
C3_CoprimeCoverage ==
    /\ <>(\A s \in Advancing :
             GCD(Cardinality(Advancing), Len(Cands(s))) = 1 => Covered(s))
    /\ [](\A s \in Advancing :
             GCD(Cardinality(Advancing), Len(Cands(s))) # 1 => ~Covered(s))

\* C3 witness: three slots with candidates; 11:00 has two and has cycled
\* through both, 15:00 has three and has been sent the same one again
C3_Witness ==
    /\ Cardinality(Advancing) = 3
    /\ Len(Cands("11:00")) = 2 /\ Covered("11:00")
    /\ Len(Cands("15:00")) = 3 /\ ~Covered("15:00")
    /\ op.slot = "15:00" /\ op.pick.sel
    /\ selected = {<<"11:00", "1">>, <<"11:00", "2">>, <<"15:00", op.pick.text>>,
                   <<"22:00", "1">>}

\* the last operation was the poll loop handling an update of a sender other
\* than the configured admin
Unauthorized(o) ==
    /\ o.kind = "poll"
    /\ env.ADMIN_CHAT_ID # ""
    /\ o.upd.from # env.ADMIN_CHAT_ID

\* C11: with ADMIN_CHAT_ID configured, an update whose sender id differs from
\* it or is missing causes no send_slot call and no send_text reply and
\* leaves the rotation state and the state file as they were; without
\* ADMIN_CHAT_ID no update is rejected for its sender.
C11_Authorization ==
    /\ [](Unauthorized(op) => ~op.called /\ op.posts = <<>> /\ op.reply = <<>>)
    /\ [](op.kind = "poll" /\ env.ADMIN_CHAT_ID = "" => op.route # "unauthorized")
    /\ [][Unauthorized(op') => UNCHANGED <<_state, file, _cache>>]_vars

\* C11 witness: with an admin configured, a /test me of another sender was
\* dropped, the rotation state holding rr_index 1
C11_Witness ==
    /\ Unauthorized(op)
    /\ op.upd.from = "u2"
    /\ op.route = "unauthorized"
    /\ _state.rr_index = IntV(1)

\* the last send_slot call returned (it did not raise)
Returned == op.called /\ ~op.raised

\* C12: within one send_slot call the sendMessage POST comes first and a
\* sendPhoto POST is issued only after it succeeded; a failed text send gives
\* failure "send_text failed" and no sendPhoto POST, a failed photo send
\* gives failure "send_photo failed", and success is returned only when the
\* text was sent and the photo was sent or there was none to send.
C12_TextBeforeImage ==
    Returned =>
        /\ Len(op.posts) <= 2
        /\ op.posts # <<>> => op.posts[1].api = "sendMessage"
        /\ Len(op.posts) = 2 => op.posts[2].api = "sendPhoto" /\ op.posts[1].ok
        /\ (op.posts # <<>> /\ ~op.posts[1].ok)
              <=> (~op.ok /\ op.summary = "send_text failed")
        /\ (Len(op.posts) = 2 /\ ~op.posts[2].ok)
              <=> (~op.ok /\ op.summary = "send_photo failed")
        /\ op.ok <=> (op.posts # <<>> /\ \A i \in 1..Len(op.posts) : op.posts[i].ok)
        /\ op.ok <=> op.summary = "ok"

\* C12 witness: the text was sent, then the photo send failed
C12_Witness ==
    /\ Returned
    /\ Len(op.posts) = 2
    /\ op.posts[1].ok /\ ~op.posts[2].ok
    /\ op.posts[2].what = "urlR"
    /\ op.summary = "send_photo failed"

\* C12 witness of the short circuit: a slot with a photo whose text send failed
C12_WitnessTextFailed ==
    /\ Returned
    /\ op.summary = "send_text failed"
    /\ Get(op.cfg.images, Get(op.cfg.slot_image, op.slot, ""), "") = "urlR"
    /\ Len(op.posts) = 1

\* the POSTs of the last send_slot call to one API method
PostsTo(api) == {i \in 1..Len(op.posts) : op.posts[i].api = api}

\* C13: outside dry-run a transport send makes between 1 and 4 POST attempts;
\* it returns True at the first attempt answered with 200 and makes no
\* attempt after it; it sleeps 2*attempt seconds after each failed attempt;
\* it returns False exactly when none of the 4 attempts was answered with
\* 200.  send_slot makes one such call for the text and at most one for the
\* photo.
C13_BoundedRetry ==
    (posted # NotPosted /\ ~env.DRY_RUN) =>
        /\ posted.attempts \in 1..MaxAttempts
        /\ posted.ok =>
              /\ resps[posted.attempts] = 200
              /\ \A j \in 1..(posted.attempts - 1) : resps[j] # 200
              /\ posted.slept = (posted.attempts - 1) * posted.attempts
        /\ ~posted.ok <=> \A j \in 1..MaxAttempts : resps[j] # 200
        /\ ~posted.ok => posted.attempts = 4 /\ posted.slept = 2 + 4 + 6 + 8
        /\ Cardinality(PostsTo("sendMessage")) = 1
        /\ op.posts[1].attempts = posted.attempts
        /\ op.posts[1].ok = posted.ok
        /\ Cardinality(PostsTo("sendPhoto")) = IF posted.ok THEN 1 ELSE 0
        /\ \A i \in 1..Len(op.posts) : op.posts[i].attempts \in 1..MaxAttempts

\* C13 witness: two failed attempts (an exception, a 500), then a 200 at the
\* third attempt, which is the last one made although the fourth answer
\* would have been an error
C13_Witness ==
    /\ posted # NotPosted /\ ~env.DRY_RUN
    /\ resps = <<0, 500, 200, 500>>
    /\ posted = [ok |-> TRUE, attempts |-> 3, slept |-> 6]
    /\ Len(op.posts) = 2

\* the rotation states a process can hold: whatever load_state made of the
\* file, with any cursor
RotationStates ==
    {load_state(f) : f \in InitFiles}
    \cup {[shape |-> "dict", rr_index |-> IntV(n), last_day |-> d] :
             n \in 0..MaxRR, d \in 0..MaxDay}

\* the last operation called pick_message in daily mode with a non-empty
\* candidate list
DailySelecting ==
    /\ op.called
    /\ op.fetch # "raised"
    /\ Lower(op.cfg.rotation) = "daily"
    /\ Candidates(op.cfg, op.slot).t = "list"
    /\ Candidates(op.cfg, op.slot).v # <<>>

\* C14: in daily mode pick_message returns
\* candidates[(day_of_year + (sum of the slot's character codes mod 97)) mod N]
\* without raising, and returns the same message from every other rotation
\* state and state file, written or not.
C14_DailyPure ==
    DailySelecting =>
        LET c == Candidates(op.cfg, op.slot).v
            bias == CASE op.slot = "11:00" -> 252 % 97
                      [] op.slot = "15:00" -> 256 % 97
                      [] op.slot = "22:00" -> 254 % 97
        IN /\ ~op.raised
           /\ op.pick.text = c[((op.day + bias) % Len(c)) + 1]
           /\ \A st \in RotationStates, fl \in InitFiles, w \in BOOLEAN :
                 LET p == pick_message(op.cfg, op.slot, st, fl, op.day, w)
                 IN ~p.raised /\ p.text = op.pick.text

\* C14 witness: the daily selection of 22:00 on day 2 from the default lists:
\* (2 + 254 mod 97) mod 3 = 2, the third candidate, the rotation state of the
\* process being a JSON list
C14_Witness ==
    /\ DailySelecting
    /\ op.slot = "22:00" /\ op.day = 2
    /\ op.pick.text = "22C"
    /\ _state = JsonList

\* the three fields of the config that are mappings
Mappings == {"messages", "images", "slot_image"}

\* the value the merge must give key k of mapping f for the fetched object d
MergedKey(d, f, k) ==
    IF f \in DOMAIN d /\ k \in DOMAIN d[f].v THEN d[f].v[k] ELSE DEFAULT_CONFIG[f][k]

\* C15: after a successful fetch the effective config has, for every
\* top-level field absent from the fetched document, the built-in default, and
\* in messages, images and slot_image the fetched keys over the default keys;
\* it is the merge of DEFAULT_CONFIG with that document alone, whatever was
\* cached before, and it is what the cache then holds.
C15_MergeOverDefaults ==
    \A i \in 1..Len(fetchLog) :
        fetchLog[i].outcome = "refreshed" =>
            LET d == fetchLog[i].doc.v
                ret == fetchLog[i].ret
                fromDefaults == fetch_config([loaded_at |-> 0, data |-> DEFAULT_CONFIG],
                                             fetchLog[i].at, "url",
                                             GetJson(fetchLog[i].doc))
            IN /\ \A f \in (DOMAIN DEFAULT_CONFIG) \ (DOMAIN d) :
                     ret[f] = DEFAULT_CONFIG[f]
               /\ \A f \in (DOMAIN DEFAULT_CONFIG) \ Mappings :
                     f \in DOMAIN d => ret[f] = d[f]
               /\ \A f \in Mappings :
                     /\ DOMAIN DEFAULT_CONFIG[f] \subseteq DOMAIN ret[f]
                     /\ \A k \in DOMAIN DEFAULT_CONFIG[f] : ret[f][k] = MergedKey(d, f, k)
               /\ ret = fromDefaults.ret
               /\ i = Len(fetchLog) => _cache.data = ret

\* C15 witness: a document supplying only images.left is merged after a
\* document with another refresh_seconds had been cached; images.right,
\* slot_image and refresh_seconds are the defaults again
C15_Witness ==
    /\ fetchLog # <<>>
    /\ LastFetch.outcome = "refreshed"
    /\ LastFetch.doc = DocImage
    /\ LastFetch.before.data.refresh_seconds = IntV(DefaultRefresh \div 2)
    /\ _cache.data.images = [left |-> "urlL", right |-> ""]
    /\ _cache.data.slot_image = DEFAULT_CONFIG.slot_image
    /\ _cache.data.refresh_seconds = IntV(DefaultRefresh)

\* the update_ids whose handling was started
Reached == {handled[i] : i \in 1..Len(handled)}

\* C16: the offset is update_id + 1 of the update handled last, also when its
\* handling raised; no update is handled twice; and the offset never passes
\* an update that was not reached, so that every such update, the rest of a
\* batch abandoned after an exception included, is among those the next
\* getUpdates asks for.
C16_PollCursor ==
    /\ handled # <<>> => offset = handled[Len(handled)] + 1
    /\ \A i, j \in 1..Len(handled) : i # j => handled[i] # handled[j]
    /\ \A id \in 1..Len(inbox) : id < offset => id \in Reached
    /\ \A id \in 1..Len(inbox) : id \notin Reached => id \in Unconfirmed
    /\ \A i \in 1..Len(batch) : batch[i] \in Unconfirmed /\ batch[i] \notin Reached

\* C16 witness: the handling of update 1 raised (the rotation state is a JSON
\* list), the loop restarted and update 2 has been handled
C16_Witness ==
    /\ _state = JsonList
    /\ Len(inbox) >= 2
    /\ inbox[1].parts = <<"/test", "11">>
    /\ handled = <<1, 2>>
    /\ op.upd = inbox[2] /\ op.route = "me" /\ op.raised
    /\ offset = 3

\* C17: a selection whose state-file writes fail still returns
\* candidates[rr_index mod N] for the rr_index held in memory and leaves the
\* in-memory rr_index one higher and last_day at the day of the call, so the
\* next selection of the process goes on from there and not from the file.
C17_MemoryAuthoritative ==
    Selecting =>
        LET c == Candidates(op.cfg, op.slot).v
            rr == op.before.rr_index.v
        IN /\ ~op.raised
           /\ op.pick.sel /\ op.pick.rr = rr
           /\ op.pick.text = c[(rr % Len(c)) + 1]
           /\ _state = [shape |-> "dict", rr_index |-> IntV(rr + 1), last_day |-> op.day]

\* C17 witness: no state file could be written; the first selection left
\* rr_index 1 in memory and the second one used it and returned the second
\* candidate
C17_Witness ==
    /\ Selecting
    /\ writeFailed
    /\ file = NoFile
    /\ op.before.rr_index = IntV(1)
    /\ op.pick.text = "15B"
    /\ _state.rr_index = IntV(2)

\* the last operation was a send_slot call that made a round-robin selection
\* from a candidate value that is not the empty list
RoundRobinCall(o) ==
    /\ o.called
    /\ o.fetch # "raised"
    /\ Lower(o.cfg.rotation) # "daily"
    /\ Candidates(o.cfg, o.slot) # List(<<>>)

\* C18: the in-memory rotation state and the state file change only in a
\* send_slot call that makes a round-robin selection from a non-empty
\* candidate list: a call for an empty slot or in daily mode, a call whose
\* fetch_config raised, an update that is dropped or answered with the usage
\* text, and the passing of time leave them as they were.
C18_OnlySelectionsMutate ==
    [][~RoundRobinCall(op') => UNCHANGED <<_state, file>>]_vars

\* C18 witness: a daily-mode send on day 2 that succeeded and left the cursor
\* and the last_day of day 1 untouched
C18_Witness ==
    /\ DailySelecting
    /\ op.ok /\ op.day = 2
    /\ _state = [shape |-> "dict", rr_index |-> IntV(1), last_day |-> 1]
    /\ file = _state

\* every POST the last operation caused: the slot's text and image, the echo
Caused == op.posts \o op.reply

\* the chat a preview is addressed to: lines 351-354
PreviewChat == IF env.ADMIN_CHAT_ID # "" THEN env.ADMIN_CHAT_ID ELSE op.upd.chat

\* '/test <slot>': the slot goes to CHAT_ID and the outcome to ADMIN_CHAT_ID,
\* if there is one
ChannelRouting ==
    (op.kind = "poll" /\ op.route = "channel") =>
        /\ \A i \in 1..Len(op.posts) : op.posts[i].chat_id = env.CHAT_ID
        /\ \A i \in 1..Len(op.reply) :
              env.ADMIN_CHAT_ID # "" /\ op.reply[i].chat_id = env.ADMIN_CHAT_ID

C20_CursorSurvivesRestart ==
    /\ [](~writeFailed => load_state(file) = _state)
    /\ [][(op'.kind = "restart" /\ ~writeFailed) => _state' = _state]_vars
    /\ [](op.pick.sel => _state.last_day = op.day)

\* C20 witness: a restart on day 2 after a selection made that day; the
\* restarted process holds rr_index 2 and last_day 2 as the stopped one did
C20_Witness ==
    /\ op.kind = "restart"
    /\ op.before = [shape |-> "dict", rr_index |-> IntV(2), last_day |-> 2]
    /\ _state = op.before
    /\ today = 2

====
